---- MODULE Spec2Model ----
(***************************************************************************)
(* Pipeline graph execution engine of the-master-os API                    *)
(* (apps/api/app/pipeline): graph compilation (graph_builder.py), the      *)
(* node handlers (node_handlers.py) and the execution coordinator          *)
(* PipelineEngine.execute / cancel_execution (engine.py).                  *)
(*                                                                         *)
(* One execute() call on one pipeline row runs concurrently with one       *)
(* cancel_execution() call on the same execution.  Costs are integers in   *)
(* micro-USD (the code rounds every cost to 6 decimals).                   *)
(***************************************************************************)
EXTENDS Integers, Sequences, FiniteSets, TLC

\* ------------------------------------------------------------------------
\* Bounds of the model
\* ------------------------------------------------------------------------
MaxNodes == 2
MaxEdges == 2
MaxAgents == 2
MaxCost == 1
MaxCallers == 2
MaxAmount == 2
MaxLedger == 3
MaxItems == 2
MaxWorkers == 2
MaxTicks == 2

\* LangGraph's default recursion_limit: ainvoke() is called without a config.
RecursionLimit == 25

\* ------------------------------------------------------------------------
\* Graph definitions (pipelines.graph_definition)
\* ------------------------------------------------------------------------
IdNames == <<"a", "b", "c", "d", "e">>
UnknownId == "zz"
NoEntry == ""

Ids(n) == {IdNames[i] : i \in 1..n}

NODE_TYPE_HANDLERS ==
    [validation      |-> "handle_validation",
     agent_call      |-> "handle_agent_call",
     mcp_call        |-> "handle_mcp_call",
     newsletter_send |-> "handle_newsletter_send",
     human_gate      |-> "handle_human_gate",
     trigger         |-> "handle_trigger",
     action          |-> "handle_action",
     output          |-> "handle_output"]

\* "custom" stands for a type that is not a key of the dispatch table.
NodeTypes == DOMAIN NODE_TYPE_HANDLERS \cup {"custom"}

\* slugs: how many agents (agent_call) / providers (mcp_call) the node's
\* label and the row's required_agents / required_mcps resolve to.
NodeConfigs ==
    {[type |-> t, slugs |-> 0] : t \in NodeTypes}
    \cup {[type |-> "agent_call", slugs |-> k] : k \in 1..MaxAgents}
    \cup {[type |-> "mcp_call", slugs |-> 1]}

PlainConfig == [type |-> "action", slugs |-> 0]

EdgeSets(S) == {E \in SUBSET (S \X S) : Cardinality(E) =< MaxEdges}

WellFormed(n, E, entry) ==
    /\ n > 0
    /\ entry \in Ids(n)
    /\ \A e \in E : e[1] \in Ids(n) /\ e[2] \in Ids(n)

\* The ids reachable from the ids in S along the edges E in at most k steps.
RECURSIVE Reach(_, _, _)
Reach(E, S, k) ==
    IF k = 0 THEN S
    ELSE Reach(E, S \cup {e[2] : e \in {x \in E : x[1] \in S}}, k - 1)

\* Node types range over every configuration for the nodes the walk can
\* reach in a well-formed definition; a node no walk reaches, and every
\* node of a definition the builder rejects, is enumerated as a plain
\* action node (its handler is never invoked).
ConfigsAt(n, E, entry, i) ==
    IF WellFormed(n, E, entry) /\ IdNames[i] \in Reach(E, {entry}, n)
    THEN NodeConfigs
    ELSE {PlainConfig}

NodeSeqs(n, E, entry) ==
    {[i \in 1..n |-> [id |-> IdNames[i], type |-> f[i].type, slugs |-> f[i].slugs]] :
        f \in {g \in [1..n -> NodeConfigs] : \A i \in 1..n : g[i] \in ConfigsAt(n, E, entry, i)}}

NotFoundRow ==
    [found |-> FALSE, graph |-> "missing", nodes |-> <<>>, edges |-> {}, entry |-> NoEntry]

MissingGraphRow ==
    [found |-> TRUE, graph |-> "missing", nodes |-> <<>>, edges |-> {}, entry |-> NoEntry]

ObjectRows ==
    UNION {
        UNION {
            {[found |-> TRUE, graph |-> "object", nodes |-> ns, edges |-> E, entry |-> ep] :
                ns \in NodeSeqs(n, E, ep)} :
            E \in EdgeSets(Ids(n) \cup {UnknownId}),
            ep \in Ids(n) \cup {UnknownId, NoEntry}} :
        n \in 0..MaxNodes}

Rows == {NotFoundRow, MissingGraphRow} \cup ObjectRows

NodeIdsOf(r) == {r.nodes[i].id : i \in 1..Len(r.nodes)}

NodeById(r, id) == r.nodes[CHOOSE i \in 1..Len(r.nodes) : r.nodes[i].id = id]

Successors(r, id) == {e[2] : e \in {x \in r.edges : x[1] = id}}

\* ------------------------------------------------------------------------
\* PipelineGraphBuilder.build
\* ------------------------------------------------------------------------
\* Build without the check of an edge's 'to' end.
BuildFromOnly(r) ==
    IF r.graph # "object" THEN "MalformedDefinition"
    ELSE IF Len(r.nodes) = 0 THEN "NoNodes"
    ELSE IF r.entry = NoEntry THEN "NoEntryPoint"
    ELSE IF r.entry \notin NodeIdsOf(r) THEN "UnknownEntryPoint"
    ELSE IF \E e \in r.edges : e[1] \notin NodeIdsOf(r) THEN "UnknownEdgeEndpoint"
    ELSE "ok"

Build(r) ==
    IF r.graph # "object" THEN "MalformedDefinition"
    ELSE IF Len(r.nodes) = 0 THEN "NoNodes"
    ELSE IF r.entry = NoEntry THEN "NoEntryPoint"
    ELSE IF r.entry \notin NodeIdsOf(r) THEN "UnknownEntryPoint"
    ELSE IF \E e \in r.edges : e[1] \notin NodeIdsOf(r) \/ e[2] \notin NodeIdsOf(r)
         THEN "UnknownEdgeEndpoint"
    ELSE "ok"

\* ------------------------------------------------------------------------
\* PipelineGraphBuilder._create_node_closure: the keyword arguments a node
\* of a given type is bound with, and the keyword-only parameters without
\* default that each handler declares.
\* ------------------------------------------------------------------------
HandlerOf(type) ==
    IF type \in DOMAIN NODE_TYPE_HANDLERS THEN NODE_TYPE_HANDLERS[type]
    ELSE NODE_TYPE_HANDLERS["action"]

BoundKwargs(type) ==
    {"ws_manager", "supabase"}
    \cup (IF type = "agent_call"
          THEN {"llm_client", "cost_calculator", "required_agents"}
          ELSE IF type = "mcp_call" THEN {"mcp_registry", "required_mcps"}
          ELSE {})

RequiredKwargs(handler) ==
    CASE handler = "handle_agent_call" -> {"llm_client", "cost_calculator"}
      [] handler = "handle_mcp_call" -> {"mcp_registry"}
      [] handler = "handle_newsletter_send" -> {"mcp_registry"}
      [] OTHER -> {}

\* ------------------------------------------------------------------------
\* The environment of one run: whether input_data is empty, what the
\* agents table and the LLM provider answer for each resolved agent,
\* whether the MCP tool raises, whether the handlers are given a store
\* client (the engine always has one), and what a newsletter_send handler
\* finds.
\* ------------------------------------------------------------------------
AgentOutcomes ==
    {[kind |-> k, cost |-> 0] : k \in {"notfound", "llm_error", "lookup_raises"}}
    \cup {[kind |-> "ok", cost |-> c] : c \in 0..MaxCost}

MaxSlugs(r) ==
    LET S == {r.nodes[i].slugs : i \in {j \in 1..Len(r.nodes) : r.nodes[j].type = "agent_call"}}
    IN IF S = {} THEN 0 ELSE CHOOSE m \in S : \A x \in S : x =< m

HasType(r, t) == \E i \in 1..Len(r.nodes) : r.nodes[i].type = t

Envs(r) ==
    {[inputEmpty |-> ie, agents |-> ag, toolRaises |-> tr, supabase |-> TRUE,
      mail |-> "sent"] :
        ie \in (IF HasType(r, "validation") THEN BOOLEAN ELSE {FALSE}),
        ag \in [1..MaxSlugs(r) -> AgentOutcomes],
        tr \in (IF \E i \in 1..Len(r.nodes) :
                      r.nodes[i].type = "mcp_call" /\ r.nodes[i].slugs > 0
                THEN BOOLEAN ELSE {FALSE})}

\* ------------------------------------------------------------------------
\* PipelineState and the node handlers.  A handler maps (state, node) to
\*   st     the state it returns,
\*   raised the exception that escapes it ("none" when it returns),
\*   evs    the events of the run it produces: calls on the broadcaster
\*          and the store, and the tool invocation raising.
\* ------------------------------------------------------------------------
NoError == "none"

\* An event: op names the call, node the node whose handler made it, amt
\* the amount (deduct) or the superstep (handler events), ok whether the
\* call succeeded (recorded for the coordinator's own writes).
Ev(op, node, amt) == [op |-> op, node |-> node, amt |-> amt, ok |-> TRUE]

Write(op, ok) == [op |-> op, node |-> "", amt |-> 0, ok |-> ok]

Entry(kind, err, agents) == [kind |-> kind, err |-> err, agents |-> agents]

InitialState ==
    [current_node_id |-> "",
     results |-> <<>>,
     step_costs |-> <<>>,
     error |-> NoError,
     status |-> "running"]

\* _copy_state(state, current_node_id=..., results={**results, node_id: entry})
WithResult(s, id, entry) ==
    [s EXCEPT !.current_node_id = id,
              !.results = (id :> entry) @@ s.results]

Returned(s, evs) == [st |-> s, raised |-> "none", evs |-> evs]

Raised(s, exc, evs) == [st |-> s, raised |-> exc, evs |-> evs]

handle_validation(s, node, e) ==
    IF node.id = "verify_recovery"
    THEN IF "execute_recovery" \notin DOMAIN s.results
         THEN Returned([WithResult(s, node.id, Entry("validation_invalid", TRUE, <<>>))
                           EXCEPT !.error = "Recovery verification failed",
                                  !.status = "failed"], <<>>)
         ELSE Returned(WithResult(s, node.id, Entry("validation_valid", FALSE, <<>>)), <<>>)
    ELSE IF e.inputEmpty
    THEN Returned([WithResult(s, node.id, Entry("validation_invalid", FALSE, <<>>))
                      EXCEPT !.error = "Validation failed: input_data is empty",
                             !.status = "failed"], <<>>)
    ELSE Returned(WithResult(s, node.id, Entry("validation_valid", FALSE, <<>>)), <<>>)

\* The per-agent loop of handle_agent_call over slugs i..k: acc carries
\* agent_results (one entry per slug so far) and total_node_cost.
RECURSIVE AgentLoop(_, _, _, _)
AgentLoop(i, k, e, acc) ==
    IF i > k THEN acc
    ELSE LET o == e.agents[i] IN
         IF o.kind = "lookup_raises" THEN [acc EXCEPT !.raised = TRUE]
         ELSE IF o.kind \in {"notfound", "llm_error"}
         THEN AgentLoop(i + 1, k, e, [acc EXCEPT !.agents = Append(@, "error")])
         ELSE AgentLoop(i + 1, k, e, [acc EXCEPT !.agents = Append(@, "ok"),
                                                 !.cost = @ + o.cost])

\* handle_agent_call failing the node as soon as one agent failed.
handle_agent_call_strict(s, node, e) ==
    IF node.slugs = 0
    THEN Returned([WithResult(s, node.id, Entry("error", TRUE, <<>>))
                      EXCEPT !.error = "No agents resolved",
                             !.status = "failed"], <<>>)
    ELSE IF ~e.supabase
    THEN Returned([s EXCEPT !.current_node_id = node.id,
                            !.error = "Database client unavailable",
                            !.status = "failed"], <<>>)
    ELSE LET r == AgentLoop(1, node.slugs, e, [agents |-> <<>>, cost |-> 0, raised |-> FALSE])
         IN IF r.raised THEN Raised(s, "StoreError", <<>>)
            ELSE IF \E i \in 1..Len(r.agents) : r.agents[i] = "error"
            THEN Returned([WithResult(s, node.id, Entry("agent_results", FALSE, r.agents))
                              EXCEPT !.error = "Agent invocation failed",
                                     !.status = "failed",
                                     !.step_costs = Append(@, r.cost)], <<>>)
            ELSE Returned([WithResult(s, node.id, Entry("agent_results", FALSE, r.agents))
                              EXCEPT !.step_costs = Append(@, r.cost)], <<>>)

handle_agent_call(s, node, e) ==
    IF node.slugs = 0
    THEN Returned([WithResult(s, node.id, Entry("error", TRUE, <<>>))
                      EXCEPT !.error = "No agents resolved",
                             !.status = "failed"], <<>>)
    ELSE IF ~e.supabase
    THEN Returned([s EXCEPT !.current_node_id = node.id,
                            !.error = "Database client unavailable",
                            !.status = "failed"], <<>>)
    ELSE LET r == AgentLoop(1, node.slugs, e, [agents |-> <<>>, cost |-> 0, raised |-> FALSE])
         IN IF r.raised THEN Raised(s, "StoreError", <<>>)
            ELSE Returned([WithResult(s, node.id, Entry("agent_results", FALSE, r.agents))
                              EXCEPT !.step_costs = Append(@, r.cost)], <<>>)

handle_mcp_call(s, node, e) ==
    IF node.slugs = 0
    THEN Returned([WithResult(s, node.id, Entry("error", TRUE, <<>>))
                      EXCEPT !.error = "No MCP provider resolved",
                             !.status = "failed"], <<>>)
    ELSE IF e.toolRaises
    THEN Returned([WithResult(s, node.id, Entry("error", TRUE, <<>>))
                      EXCEPT !.error = "MCP execution failed",
                             !.status = "failed"], <<Ev("tool_raised", node.id, 0)>>)
    ELSE Returned(WithResult(s, node.id, Entry("mcp_result", FALSE, <<>>)), <<>>)

\* handle_human_gate without the update of the execution record.
handle_human_gate_unpersisted(s, node, e) ==
    Returned([WithResult(s, node.id, Entry("awaiting_approval", FALSE, <<>>))
                 EXCEPT !.status = "awaiting_approval"],
             <<Ev("approval_required", node.id, 0)>>)

handle_human_gate(s, node, e) ==
    Returned([WithResult(s, node.id, Entry("awaiting_approval", FALSE, <<>>))
                 EXCEPT !.status = "awaiting_approval"],
             <<Ev("approval_required", node.id, 0), Ev("set_paused", node.id, 0)>>)

handle_trigger(s, node, e) ==
    Returned(WithResult(s, node.id, Entry("trigger", FALSE, <<>>)), <<>>)

handle_action(s, node, e) ==
    Returned(WithResult(s, node.id, Entry("action", FALSE, <<>>)), <<>>)

\* handle_output resetting the error when it marks the run completed.
handle_output_clears_error(s, node, e) ==
    Returned([WithResult(s, node.id, Entry("output", FALSE, <<>>))
                 EXCEPT !.status = "completed", !.error = NoError], <<>>)

\* handle_output leaving the status as it found it.
handle_output_keeps_status(s, node, e) ==
    Returned(WithResult(s, node.id, Entry("output", FALSE, <<>>)), <<>>)

handle_output(s, node, e) ==
    Returned([WithResult(s, node.id, Entry("output", FALSE, <<>>))
                 EXCEPT !.status = "completed"], <<>>)

\* What handle_newsletter_send finds: no newsletter content in the
\* results, the subscribers query raising, no active subscriber, or
\* subscribers to send to (failed batches are counted, not raised).
MailOutcomes == {"no_content", "query_raises", "no_subscribers", "sent"}

handle_newsletter_send(s, node, e) ==
    IF e.mail = "no_content"
    THEN Returned(WithResult(s, node.id, Entry("skipped", FALSE, <<>>)), <<>>)
    ELSE IF ~e.supabase
    THEN Returned([s EXCEPT !.current_node_id = node.id,
                            !.error = "Database client unavailable",
                            !.status = "failed"], <<>>)
    ELSE IF e.mail = "query_raises" THEN Raised(s, "StoreError", <<>>)
    ELSE IF e.mail = "no_subscribers"
    THEN Returned(WithResult(s, node.id, Entry("skipped", FALSE, <<>>)), <<>>)
    ELSE Returned(WithResult(s, node.id, Entry("newsletter_sent", FALSE, <<>>)), <<>>)

\* handler_fn(state, config, **kwargs) with every required keyword
\* argument given.
CallHandler(h, s, node, e) ==
    CASE h = "handle_validation" -> handle_validation(s, node, e)
      [] h = "handle_agent_call" -> handle_agent_call(s, node, e)
      [] h = "handle_mcp_call" -> handle_mcp_call(s, node, e)
      [] h = "handle_newsletter_send" -> handle_newsletter_send(s, node, e)
      [] h = "handle_human_gate" -> handle_human_gate(s, node, e)
      [] h = "handle_trigger" -> handle_trigger(s, node, e)
      [] h = "handle_output" -> handle_output(s, node, e)
      [] OTHER -> handle_action(s, node, e)

\* The closure _node_handler of a node: handler_fn(state, config, **kwargs).
\* A handler called without one of its required keyword arguments raises
\* TypeError before its body runs.
NodeHandler(s, node, e) ==
    LET h == HandlerOf(node.type) IN
    IF ~(RequiredKwargs(h) \subseteq BoundKwargs(node.type)) THEN Raised(s, "TypeError", <<>>)
    ELSE CallHandler(h, s, node, e)

\* ------------------------------------------------------------------------
\* CostCalculator.calculate_pipeline_cost: round(sum(step_costs), 6), in
\* micro-USD.
\* ------------------------------------------------------------------------
RECURSIVE SumSeq(_)
SumSeq(q) == IF q = <<>> THEN 0 ELSE Head(q) + SumSeq(Tail(q))

\* A total that counts only the first recorded step cost.
calculate_pipeline_cost_first(step_costs) ==
    IF step_costs = <<>> THEN 0 ELSE Head(step_costs)

calculate_pipeline_cost(step_costs) == SumSeq(step_costs)

\* ------------------------------------------------------------------------
\* PipelineEngine._insert_step_records: the rows built for pipeline_steps.
\* ------------------------------------------------------------------------
StepStatus(results, id) ==
    IF id \notin DOMAIN results THEN "skipped"
    ELSE IF results[id].err THEN "failed"
    ELSE "completed"

StepRecords(r, results, step_costs) ==
    [idx \in 1..Len(r.nodes) |->
        [step_name |-> r.nodes[idx].id,
         step_order |-> idx,
         status |-> StepStatus(results, r.nodes[idx].id),
         credits_used |-> IF idx =< Len(step_costs) THEN step_costs[idx] ELSE 0]]

\* ------------------------------------------------------------------------
\* State
\* ------------------------------------------------------------------------
VARIABLES
    row,        \* the pipelines row that _fetch_pipeline looks up
    env,        \* the environment of the run (see Envs)
    pc,         \* position of the execute() call
    built,      \* outcome of graph_builder.build ("" before it has run)
    st,         \* the PipelineState threaded through the graph walk
    active,     \* nodes scheduled for the next superstep of the walk
    stepCount,  \* supersteps run so far
    excMsg,     \* the exception caught or escaping ("" when none)
    fin,        \* execute()'s locals status / error / total_cost after the walk
    stored,     \* status of the pipeline_executions record ("none": no record)
    stepRows,   \* the rows of pipeline_steps for the execution
    result,     \* the value execute() returned
    log,        \* calls execute() made on the store, credit service and broadcaster
    clog,       \* calls cancel_execution() made on the store and broadcaster
    cpc,        \* position of the cancel_execution() call
    cres,       \* the value cancel_execution() returned
    ledger,     \* the rows of the credits table of one workspace, oldest first
    callers,    \* the CreditService calls in flight, by caller
    schedules,  \* status of each content_schedules row
    dispatched, \* how many times the channel dispatch of each row has run
    workers     \* the scheduler job of each uvicorn worker

billingVars == <<ledger, callers>>

schedulerVars == <<schedules, dispatched, workers>>

vars == <<row, env, pc, built, st, active, stepCount, excMsg, fin, stored, stepRows,
          result, log, clog, cpc, cres, billingVars, schedulerVars>>

\* The credit service and the content scheduler before any call of theirs.
BillingIdle == ledger = <<>> /\ callers = <<>>

SchedulerIdle == schedules = <<>> /\ dispatched = <<>> /\ workers = <<>>

NoResult == [status |-> "none", error |-> NoError, total_cost |-> 0]

NoFin == [status |-> "none", error |-> NoError, total_cost |-> 0]

FailedResult(msg) == [status |-> "failed", error |-> msg, total_cost |-> 0]

Init ==
    /\ row \in Rows
    /\ env \in Envs(row)
    /\ pc = "start"
    /\ built = ""
    /\ st = InitialState
    /\ active = {}
    /\ stepCount = 0
    /\ excMsg = ""
    /\ fin = NoFin
    /\ stored = "none"
    /\ stepRows = <<>>
    /\ result = NoResult
    /\ log = <<>>
    /\ clog = <<>>
    /\ cpc = "idle"
    /\ cres = "none"
    /\ BillingIdle
    /\ SchedulerIdle

execVars == <<pc, built, st, active, stepCount, excMsg, fin, stepRows, result>>

cancelVars == <<clog, cpc, cres>>

\* ------------------------------------------------------------------------
\* PipelineEngine.execute
\* ------------------------------------------------------------------------

\* A missing definition after which the execution record is still created.
OnNotFoundInsert == "insert"

\* if pipeline_row is None: execute() returns at once.
OnNotFound == "done"

\* 1. _fetch_pipeline: the query may raise (nothing catches it), find no
\* active row, or return the row.
Fetch ==
    /\ pc = "start"
    /\ \/ /\ pc' = "raised"
          /\ excMsg' = "StoreError"
          /\ UNCHANGED result
       \/ /\ ~row.found
          /\ pc' = OnNotFound
          /\ result' = FailedResult("Pipeline not found or inactive")
          /\ UNCHANGED excMsg
       \/ /\ row.found
          /\ pc' = "insert"
          /\ UNCHANGED <<excMsg, result>>
    /\ UNCHANGED <<row, env, built, st, active, stepCount, fin, stored, stepRows, log, cancelVars, billingVars, schedulerVars>>

\* 2. _insert_execution: inserts the record with status running; a failed
\* insert is logged and re-raised.
InsertExecution ==
    /\ pc = "insert"
    /\ \/ /\ stored' = "running"
          /\ pc' = "build"
          /\ log' = Append(log, Write("insert_execution", TRUE))
          /\ UNCHANGED excMsg
       \/ /\ pc' = "raised"
          /\ excMsg' = "StoreError"
          /\ log' = Append(log, Write("insert_execution", FALSE))
          /\ UNCHANGED stored
    /\ UNCHANGED <<row, env, built, st, active, stepCount, fin, stepRows, result, cancelVars, billingVars, schedulerVars>>

\* _update_execution_failed / _update_execution_completed / the paused
\* update of handle_human_gate: an unconditional update by id whose
\* failure is logged and swallowed.
StoreUpdate(status, ok) == IF ok THEN status ELSE stored

\* A build whose ValueError is not handled as a failure.
CompileErrorIgnored(k) == FALSE

\* except ValueError around graph_builder.build.
CompileFailed(k) == k # "ok"

\* 3. graph_builder.build; on ValueError: _update_execution_failed, return.
BuildGraph ==
    /\ pc = "build"
    /\ built' = Build(row)
    /\ LET k == built' IN
       IF CompileFailed(k)
       THEN /\ \E ok \in BOOLEAN :
                  /\ stored' = StoreUpdate("failed", ok)
                  /\ log' = Append(log, Write("update_failed", ok))
            /\ result' = FailedResult(k)
            /\ pc' = "done"
            /\ UNCHANGED <<st, active>>
       ELSE /\ st' = InitialState
            /\ active' = {row.entry}
            /\ pc' = "walk"
            /\ UNCHANGED <<stored, log, result>>
    /\ UNCHANGED <<row, env, stepCount, excMsg, fin, stepRows, cancelVars, billingVars, schedulerVars>>

\* The handlers started in one superstep, in the order of the definition:
\* each invocation of a bound closure, followed by the calls it makes.
Stamp(evs, step) == [j \in 1..Len(evs) |-> [evs[j] EXCEPT !.amt = step]]

RECURSIVE StepEvents(_, _, _, _, _, _)
StepEvents(r, A, s, e, i, step) ==
    IF i > Len(r.nodes) THEN <<>>
    ELSE (IF r.nodes[i].id \in A
          THEN Stamp(<<Ev("handler", r.nodes[i].id, 0)>> \o NodeHandler(s, r.nodes[i], e).evs,
                     step)
          ELSE <<>>) \o StepEvents(r, A, s, e, i + 1, step)

HasEvent(evs, op) == \E i \in 1..Len(evs) : evs[i].op = op

\* The nodes the compiled graph schedules after the nodes in A have run:
\* every target of an edge added by graph.add_edge (END is no node).
NextNodes(r, A) == UNION {Successors(r, n) : n \in A}

\* 5. compiled_graph.ainvoke: one superstep of the walk.  Every scheduled
\* node's closure is invoked on the current state.  A handler that raises
\* ends the walk with that exception; two nodes of one superstep both
\* write every key of the state, which the graph rejects
\* (InvalidUpdateError); otherwise the returned state replaces the current
\* one and the targets of the node's out-edges are scheduled.
WalkStep ==
    /\ pc = "walk"
    /\ active # {}
    /\ stepCount < RecursionLimit
    /\ LET outs == [n \in active |-> NodeHandler(st, NodeById(row, n), env)]
           gate == \E n \in active : HasEvent(outs[n].evs, "set_paused")
           raisedIn == {n \in active : outs[n].raised # "none"}
           next == NextNodes(row, active)
       IN /\ log' = log \o StepEvents(row, active, st, env, 1, stepCount + 1)
          /\ \E ok \in BOOLEAN :
                stored' = IF gate THEN StoreUpdate("paused", ok) ELSE stored
          /\ stepCount' = stepCount + 1
          /\ IF raisedIn # {}
             THEN /\ pc' = "walk_failed"
                  /\ excMsg' = outs[CHOOSE n \in raisedIn : TRUE].raised
                  /\ UNCHANGED <<st, active>>
             ELSE IF Cardinality(active) > 1
             THEN /\ pc' = "walk_failed"
                  /\ excMsg' = "InvalidUpdateError"
                  /\ UNCHANGED <<st, active>>
             ELSE /\ st' = outs[CHOOSE n \in active : TRUE].st
                  /\ active' = next
                  /\ pc' = IF next = {} THEN "finalize" ELSE "walk"
                  /\ UNCHANGED excMsg
    /\ UNCHANGED <<row, env, built, fin, stepRows, result, cancelVars, billingVars, schedulerVars>>

\* A walk that reaches the limit with nodes still scheduled and raises
\* nothing.
WalkLimitIgnored ==
    /\ pc = "walk"
    /\ active # {}
    /\ stepCount = RecursionLimit
    /\ UNCHANGED vars

\* The walk has run recursion_limit supersteps and nodes are still
\* scheduled: ainvoke raises GraphRecursionError.
WalkLimit ==
    /\ pc = "walk"
    /\ active # {}
    /\ stepCount = RecursionLimit
    /\ pc' = "walk_failed"
    /\ excMsg' = "GraphRecursionError"
    /\ UNCHANGED <<row, env, built, st, active, stepCount, fin, stored, stepRows, result,
                   log, cancelVars, billingVars, schedulerVars>>

\* except Exception around ainvoke: _update_execution_failed,
\* _broadcast_error, return the failed result.
FailWalk ==
    /\ pc = "walk_failed"
    /\ \E ok \in BOOLEAN :
          /\ stored' = StoreUpdate("failed", ok)
          /\ log' = log \o <<Write("update_failed", ok), Ev("execution_error", "", 0)>>
    /\ result' = FailedResult(excMsg)
    /\ pc' = "done"
    /\ UNCHANGED <<row, env, built, st, active, stepCount, excMsg, fin, stepRows, cancelVars, billingVars, schedulerVars>>

\* 6. The final status derived from the final state.
FinalStatus(s) ==
    IF s.error # NoError /\ s.status # "awaiting_approval" THEN "failed" ELSE s.status

\* 6-7. Process the final state and _update_execution_completed (the
\* event's amt is the total_credits it writes).
Finalize ==
    /\ pc = "finalize"
    /\ fin' = [status |-> FinalStatus(st),
               error |-> st.error,
               total_cost |-> calculate_pipeline_cost(st.step_costs)]
    /\ \E ok \in BOOLEAN :
          /\ stored' = StoreUpdate(fin'.status, ok)
          /\ log' = Append(log, [Write("update_completed", ok)
                                     EXCEPT !.amt = fin'.total_cost])
    /\ pc' = "steps"
    /\ UNCHANGED <<row, env, built, st, active, stepCount, excMsg, stepRows, result, cancelVars, billingVars, schedulerVars>>

\* A failed insert of the step records after which billing is skipped.
OnInsertStepsErrorSkipBilling == "audit"

\* except Exception inside _insert_step_records: execute() goes on with
\* the credit deduction.
OnInsertStepsError == "bill"

\* 8. _insert_step_records: a failed insert is logged and swallowed.
InsertSteps ==
    /\ pc = "steps"
    /\ \E ok \in BOOLEAN :
          /\ stepRows' = IF ok THEN StepRecords(row, st.results, st.step_costs)
                         ELSE stepRows
          /\ log' = Append(log, Write("insert_steps", ok))
          /\ pc' = IF ok THEN "bill" ELSE OnInsertStepsError
    /\ UNCHANGED <<row, env, built, st, active, stepCount, excMsg, fin, stored, result, cancelVars, billingVars, schedulerVars>>

\* Deducting for every execution that did not fail.
ShouldDeductUnlessFailed(f) == f.status # "failed" /\ f.total_cost > 0

\* 9. The condition under which credits are deducted.
ShouldDeduct(f) == f.status = "completed" /\ f.total_cost > 0

\* A billing error handled as a failure of the execution.
OnDeductErrorFailRun == "walk_failed"

\* except Exception around credit_service.deduct: execute() goes on with
\* the audit log.
OnDeductError == "audit"

\* 9. credit_service.deduct(amount=total_cost); any exception it raises
\* (InsufficientCreditsError, a store error) is logged and swallowed.
Bill ==
    /\ pc = "bill"
    /\ IF ShouldDeduct(fin)
       THEN \/ /\ log' = Append(log, Ev("deduct", "", fin.total_cost))
               /\ pc' = "audit"
            \/ /\ log' = Append(log, [Ev("deduct", "", fin.total_cost) EXCEPT !.ok = FALSE])
               /\ pc' = OnDeductError
       ELSE /\ UNCHANGED log
            /\ pc' = "audit"
    /\ UNCHANGED <<row, env, built, st, active, stepCount, excMsg, fin, stored, stepRows, result,
                   cancelVars, billingVars, schedulerVars>>

\* 10. _insert_audit_log: a failed insert is logged and swallowed.
Audit ==
    /\ pc = "audit"
    /\ log' = Append(log, Ev("audit", "", 0))
    /\ pc' = "notify"
    /\ UNCHANGED <<row, env, built, st, active, stepCount, excMsg, fin, stored, stepRows, result,
                   cancelVars, billingVars, schedulerVars>>

\* 11. send_execution_complete when completed (a failure is swallowed),
\* then return the result.
Notify ==
    /\ pc = "notify"
    /\ log' = IF fin.status = "completed"
              THEN Append(log, Ev("execution_complete", "", 0))
              ELSE log
    /\ result' = [status |-> fin.status, error |-> fin.error, total_cost |-> fin.total_cost]
    /\ pc' = "done"
    /\ UNCHANGED <<row, env, built, st, active, stepCount, excMsg, fin, stored, stepRows, cancelVars, billingVars, schedulerVars>>

\* ------------------------------------------------------------------------
\* PipelineEngine.cancel_execution
\* ------------------------------------------------------------------------
\* A cancellation that is also accepted for a completed execution.
CancellableOrCompleted == {"pending", "running", "paused", "completed"}

\* The statuses from which cancel_execution goes on to the update.
Cancellable == {"pending", "running", "paused"}

\* select id, status: not found, not cancellable (conflict), or go on.
CancelRead ==
    /\ cpc = "idle"
    /\ IF stored = "none"
       THEN cpc' = "done" /\ cres' = "not_found"
       ELSE IF stored \notin Cancellable
       THEN cpc' = "done" /\ cres' = "conflict"
       ELSE cpc' = "write" /\ UNCHANGED cres
    /\ UNCHANGED <<row, env, stored, log, clog>>
    /\ UNCHANGED <<execVars, billingVars, schedulerVars>>

\* update status to cancelled (unconditional, by id), broadcast, return.
CancelWrite ==
    /\ cpc = "write"
    /\ stored' = "cancelled"
    /\ clog' = clog \o <<Ev("update_cancelled", "", 0), Ev("execution_error", "", 0)>>
    /\ cpc' = "done"
    /\ cres' = "cancelled"
    /\ UNCHANGED <<row, env, log>>
    /\ UNCHANGED <<execVars, billingVars, schedulerVars>>

Next ==
    \/ Fetch
    \/ InsertExecution
    \/ BuildGraph
    \/ WalkStep
    \/ WalkLimit
    \/ FailWalk
    \/ Finalize
    \/ InsertSteps
    \/ Bill
    \/ Audit
    \/ Notify
    \/ CancelRead
    \/ CancelWrite

Spec == Init /\ [][Next]_vars

\* The steps of the execute() call.
ExecuteStep ==
    \/ Fetch
    \/ InsertExecution
    \/ BuildGraph
    \/ WalkStep
    \/ WalkLimit
    \/ FailWalk
    \/ Finalize
    \/ InsertSteps
    \/ Bill
    \/ Audit
    \/ Notify

\* One execute() call on its own, with no cancellation requested.  It runs
\* as a task of the event loop and every call it awaits comes back (returns
\* or raises): it always takes its next step.
FairSpec == Init /\ [][ExecuteStep]_vars /\ WF_vars(ExecuteStep)

\* ------------------------------------------------------------------------
\* The handlers on their own: one call of the handler of a node with all
\* of its keyword arguments given, for every node, prior state and
\* environment below.  Here the store client may also be None, the default
\* of every handler's supabase parameter.
\* ------------------------------------------------------------------------
HandlerNodeIds == {"a", "verify_recovery"}

HandlerRows ==
    {[found |-> TRUE, graph |-> "object",
      nodes |-> <<[id |-> id, type |-> c.type, slugs |-> c.slugs]>>,
      edges |-> {}, entry |-> id] : id \in HandlerNodeIds, c \in NodeConfigs}

HandlerEnvs(r) ==
    {[e EXCEPT !.supabase = sb, !.mail = m] :
        e \in Envs(r),
        sb \in (IF HasType(r, "agent_call") \/ HasType(r, "newsletter_send")
                THEN BOOLEAN ELSE {TRUE}),
        m \in (IF HasType(r, "newsletter_send") THEN MailOutcomes ELSE {"sent"})}

\* The states a handler can be handed: results of upstream nodes, and the
\* status and error earlier handlers left.
PriorStates ==
    {[InitialState EXCEPT !.results = [id \in D |-> Entry("action", FALSE, <<>>)],
                          !.status = se[1],
                          !.error = se[2]] :
        D \in SUBSET {"execute_recovery"},
        se \in {<<"running", NoError>>,
                <<"failed", "MCP execution failed">>,
                <<"awaiting_approval", NoError>>}}

InitHandler ==
    /\ row \in HandlerRows
    /\ env \in HandlerEnvs(row)
    /\ st \in PriorStates
    /\ pc = "call"
    /\ built = "ok"
    /\ active = {row.entry}
    /\ stepCount = 0
    /\ excMsg = ""
    /\ fin = NoFin
    /\ stored = "running"
    /\ stepRows = <<>>
    /\ result = NoResult
    /\ log = <<>>
    /\ clog = <<>>
    /\ cpc = "idle"
    /\ cres = "none"
    /\ BillingIdle
    /\ SchedulerIdle

HandlerCall ==
    /\ pc = "call"
    /\ LET out == CallHandler(HandlerOf(row.nodes[1].type), st, row.nodes[1], env)
       IN /\ st' = out.st
          /\ excMsg' = IF out.raised = "none" THEN excMsg ELSE out.raised
          /\ pc' = IF out.raised = "none" THEN "returned" ELSE "handler_raised"
          /\ log' = log \o Stamp(<<Ev("handler", row.nodes[1].id, 0)>> \o out.evs, 1)
          /\ \E ok \in BOOLEAN :
                stored' = IF HasEvent(out.evs, "set_paused")
                          THEN StoreUpdate("paused", ok) ELSE stored
    /\ UNCHANGED <<row, env, built, active, stepCount, fin, stepRows, result, cancelVars, billingVars, schedulerVars>>

NextHandler == HandlerCall

SpecHandler == InitHandler /\ [][NextHandler]_vars

\* ------------------------------------------------------------------------
\* CreditService (billing/credits.py): concurrent deduct / charge / refund
\* calls on the ledger of one workspace.  Amounts are integers in
\* micro-credits.
\* ------------------------------------------------------------------------
engineVars == <<row, env, pc, built, st, active, stepCount, excMsg, fin, stored, stepRows,
                result, log, clog, cpc, cres>>

\* No execute() or cancel_execution() call is running.
EngineIdle ==
    /\ row = NotFoundRow
    /\ env \in Envs(NotFoundRow)
    /\ pc = "idle"
    /\ built = ""
    /\ st = InitialState
    /\ active = {}
    /\ stepCount = 0
    /\ excMsg = ""
    /\ fin = NoFin
    /\ stored = "none"
    /\ stepRows = <<>>
    /\ result = NoResult
    /\ log = <<>>
    /\ clog = <<>>
    /\ cpc = "done"
    /\ cres = "none"

CreditCallers == 1..MaxCallers

CreditOps == {"deduct", "charge", "refund"}

NoCall == [pc |-> "idle", op |-> "none", amount |-> 0, balance |-> 0]

\* get_balance: balance_after of the most recent row, 0.0 without rows.
get_balance(rows) == IF rows = <<>> THEN 0 ELSE rows[Len(rows)].balance_after

\* The amount column: negative for usage, positive for charge and refund.
SignedAmount(op, amount) == IF op = "deduct" THEN 0 - amount ELSE amount

TransactionType(op) == IF op = "deduct" THEN "usage" ELSE op

InitCredits ==
    /\ EngineIdle
    /\ SchedulerIdle
    /\ ledger = <<>>
    /\ callers = [c \in CreditCallers |-> NoCall]

\* A caller enters deduct / charge / refund.
CreditCall(c) ==
    /\ callers[c].pc \in {"idle", "done", "raised"}
    /\ Len(ledger) < MaxLedger
    /\ \E op \in CreditOps, amount \in 1..MaxAmount :
          callers' = [callers EXCEPT ![c] = [pc |-> "read", op |-> op, amount |-> amount,
                                             balance |-> 0]]
    /\ UNCHANGED <<ledger, engineVars, schedulerVars>>

\* balance = await self.get_balance(workspace_id); deduct raises
\* InsufficientCreditsError when balance < amount.
CreditRead(c) ==
    /\ callers[c].pc = "read"
    /\ LET b == get_balance(ledger) IN
       callers' = [callers EXCEPT ![c].balance = b,
                                  ![c].pc = IF callers[c].op = "deduct" /\ b < callers[c].amount
                                            THEN "raised" ELSE "insert"]
    /\ UNCHANGED <<ledger, engineVars, schedulerVars>>

\* INSERT of the ledger row with the balance_after computed from the
\* balance read before.
CreditInsert(c) ==
    /\ callers[c].pc = "insert"
    /\ LET a == SignedAmount(callers[c].op, callers[c].amount) IN
       ledger' = Append(ledger, [transaction_type |-> TransactionType(callers[c].op),
                                 amount |-> a,
                                 balance_after |-> callers[c].balance + a])
    /\ callers' = [callers EXCEPT ![c].pc = "audit"]
    /\ UNCHANGED <<engineVars, schedulerVars>>

\* INSERT into audit_logs, then return the CreditTransaction.
CreditAudit(c) ==
    /\ callers[c].pc = "audit"
    /\ callers' = [callers EXCEPT ![c].pc = "done"]
    /\ UNCHANGED <<ledger, engineVars, schedulerVars>>

NextCredits ==
    \/ \E c \in CreditCallers : CreditCall(c)
    \/ \E c \in CreditCallers : CreditRead(c)
    \/ \E c \in CreditCallers : CreditInsert(c)
    \/ \E c \in CreditCallers : CreditAudit(c)

SpecCredits == InitCredits /\ [][NextCredits]_vars

\* ------------------------------------------------------------------------
\* ContentScheduler (services/scheduler.py): the polling job of several
\* uvicorn workers over the same content_schedules rows, all due.
\* ------------------------------------------------------------------------
SchedItems == 1..MaxItems

SchedWorkers == 1..MaxWorkers

\* A worker's job: pc its position, batch the fetched rows not yet handled
\* (the first one is the row in hand), err whether the dispatch of the row
\* in hand raised, ticks the job runs started, skipped the rows whose claim
\* matched nothing.
NoJob == [pc |-> "idle", batch |-> <<>>, err |-> FALSE, ticks |-> 0, skipped |-> {}]

IsPending(i) == schedules[i] = "pending"

\* select * from content_schedules where status = 'pending' and due.
DueRows == SelectSeq([i \in 1..MaxItems |-> i], IsPending)

InitScheduler ==
    /\ EngineIdle
    /\ BillingIdle
    /\ schedules = [i \in SchedItems |-> "pending"]
    /\ dispatched = [i \in SchedItems |-> 0]
    /\ workers = [w \in SchedWorkers |-> NoJob]

\* The row after the one in hand, or the end of the job run.
NextRow(j) ==
    [j EXCEPT !.batch = Tail(j.batch),
              !.err = FALSE,
              !.pc = IF Len(j.batch) > 1 THEN "claim" ELSE "idle"]

\* _process_due_schedules: a job run starts (max_instances=1: never while
\* the worker's previous run is going on); the select fails (logged,
\* return) or returns the due pending rows.
SchedTick(w) ==
    /\ workers[w].pc = "idle"
    /\ workers[w].ticks < MaxTicks
    /\ \/ workers' = [workers EXCEPT ![w].ticks = @ + 1, ![w].batch = <<>>]
       \/ workers' = [workers EXCEPT ![w].ticks = @ + 1,
                                     ![w].batch = DueRows,
                                     ![w].pc = IF DueRows = <<>> THEN "idle" ELSE "claim"]
    /\ UNCHANGED <<schedules, dispatched, engineVars, billingVars>>

\* A claim that does not look at the status of the row.
ClaimAnyStatus(status) == TRUE

\* .eq("status", "pending"): the rows the claiming update matches.
ClaimMatches(status) == status = "pending"

\* 1. The claim: update status to running where id and status = pending,
\* one statement of the store.  It matches the row (go on to dispatch),
\* matches nothing (return), or raises: nothing catches it in
\* _execute_schedule or in the loop of _process_due_schedules, so the job
\* run ends with the rest of its batch unhandled.
SchedClaim(w) ==
    /\ workers[w].pc = "claim"
    /\ LET i == Head(workers[w].batch) IN
       \/ /\ ClaimMatches(schedules[i])
          /\ schedules' = [schedules EXCEPT ![i] = "running"]
          /\ workers' = [workers EXCEPT ![w].pc = "dispatch"]
       \/ /\ ~ClaimMatches(schedules[i])
          /\ workers' = [workers EXCEPT ![w] = [NextRow(@) EXCEPT !.skipped = @ \cup {i}]]
          /\ UNCHANGED schedules
       \/ /\ workers' = [workers EXCEPT ![w].pc = "idle"]
          /\ UNCHANGED schedules
    /\ UNCHANGED <<dispatched, engineVars, billingVars>>

\* 2. The channel dispatch runs; it returns or raises (caught: the error
\* message is kept).
SchedDispatch(w) ==
    /\ workers[w].pc = "dispatch"
    /\ dispatched' = [dispatched EXCEPT ![Head(workers[w].batch)] = @ + 1]
    /\ \E raised \in BOOLEAN :
          workers' = [workers EXCEPT ![w].pc = "final", ![w].err = raised]
    /\ UNCHANGED <<schedules, engineVars, billingVars>>

\* 3. The update to the final status, by id; its failure is logged and
\* swallowed.
SchedFinal(w) ==
    /\ workers[w].pc = "final"
    /\ LET i == Head(workers[w].batch)
           final_status == IF workers[w].err THEN "failed" ELSE "completed"
       IN \/ schedules' = [schedules EXCEPT ![i] = final_status]
          \/ UNCHANGED schedules
    /\ workers' = [workers EXCEPT ![w].pc = "notify"]
    /\ UNCHANGED <<dispatched, engineVars, billingVars>>

\* 4. _notify_slack (best effort), then the next row of the batch.
SchedNotify(w) ==
    /\ workers[w].pc = "notify"
    /\ workers' = [workers EXCEPT ![w] = NextRow(@)]
    /\ UNCHANGED <<schedules, dispatched, engineVars, billingVars>>

NextScheduler ==
    \/ \E w \in SchedWorkers : SchedTick(w)
    \/ \E w \in SchedWorkers : SchedClaim(w)
    \/ \E w \in SchedWorkers : SchedDispatch(w)
    \/ \E w \in SchedWorkers : SchedFinal(w)
    \/ \E w \in SchedWorkers : SchedNotify(w)

SpecScheduler == InitScheduler /\ [][NextScheduler]_vars

\* ------------------------------------------------------------------------
\* Properties
\* ------------------------------------------------------------------------
Idx(op) == {i \in 1..Len(log) : log[i].op = op}

Finished == pc = "done"

\* The handler of another node was invoked in a superstep later than the
\* one of event i: that node is downstream of the node of event i.
HandlerAfter(i) ==
    \E j \in Idx("handler") : log[j].amt > log[i].amt /\ log[j].node # log[i].node

\* C1: execute() never raises: whatever its collaborators do, it returns a
\* result that carries a status and, when the status is failed, an error.
C1_ExecuteNeverRaises ==
    /\ pc # "raised"
    /\ Finished => /\ result.status # "none"
                   /\ (result.status = "failed" => result.error # NoError)

\* C2: once the tool invocation of an mcp_call node has raised, no handler
\* of a downstream node (a later superstep) is invoked, and the execution
\* ends with status failed and an error.
C2_ToolFailureHaltsRun ==
    \A i \in Idx("tool_raised") :
        /\ ~HandlerAfter(i)
        /\ Finished => result.status = "failed" /\ result.error # NoError

\* C3: once a human_gate handler has run, no handler of a downstream node
\* (a later superstep) is invoked, and the call ends awaiting_approval.
C3_GateHaltsRun ==
    \A i \in Idx("approval_required") :
        /\ ~HandlerAfter(i)
        /\ Finished => result.status = "awaiting_approval"

\* C4: once the stored status is cancelled, no later write of the execute()
\* call in flight changes it.
C4_CancelledIsKept == [][stored = "cancelled" => stored' = "cancelled"]_vars

\* The rules of a graph definition, stated on the definition itself.
EndpointsValid(r) ==
    /\ r.entry \in NodeIdsOf(r)
    /\ \A e \in r.edges : e[1] \in NodeIdsOf(r) /\ e[2] \in NodeIdsOf(r)

ViolatedRules(r) ==
    {k \in {"MalformedDefinition", "NoNodes", "NoEntryPoint", "UnknownEntryPoint",
            "UnknownEdgeEndpoint"} :
        \/ k = "MalformedDefinition" /\ r.graph # "object"
        \/ k = "NoNodes" /\ r.graph = "object" /\ r.nodes = <<>>
        \/ k = "NoEntryPoint" /\ r.graph = "object" /\ r.entry = NoEntry
        \/ k = "UnknownEntryPoint" /\ r.entry # NoEntry /\ r.entry \notin NodeIdsOf(r)
        \/ k = "UnknownEdgeEndpoint"
              /\ \E e \in r.edges : ~(e[1] \in NodeIdsOf(r) /\ e[2] \in NodeIdsOf(r))}

\* C5: build succeeds exactly when entry_point and both ends of every edge
\* are node ids; when it fails, the error kind is that of a rule the
\* definition violates.
C5_BuildAcceptsExactlyValid ==
    built # "" =>
        /\ (built = "ok" <=> EndpointsValid(row))
        /\ (built # "ok" => built \in ViolatedRules(row))

C5_Witness ==
    /\ built = "UnknownEdgeEndpoint"
    /\ row.entry \in NodeIdsOf(row)
    /\ \E e \in row.edges : e[1] \in NodeIdsOf(row) /\ e[2] \notin NodeIdsOf(row)

UpdateOk(op) == \E i \in Idx(op) : log[i].ok

C7_DeductOnlyCompletedWithCost ==
    /\ Cardinality(Idx("deduct")) =< 1
    /\ \A i \in Idx("deduct") :
          /\ fin.status = "completed"
          /\ fin.total_cost > 0
          /\ log[i].amt = fin.total_cost
    /\ Finished =>
          (Idx("deduct") # {} <=> result.status = "completed" /\ result.total_cost > 0)

C7_Witness ==
    /\ Finished
    /\ Idx("deduct") # {}
    /\ result.status = "completed"

DeductFailed == \E i \in Idx("deduct") : ~log[i].ok

\* C8: after a failed deduction the execution goes on: the status execute()
\* returns is completed, the stored status is not changed by it (it is
\* completed when the final update succeeded and no cancellation wrote),
\* and the audit record and the execution-complete broadcast are produced.
C8_BillingFailureSwallowed ==
    DeductFailed =>
        /\ pc \in {"audit", "notify", "done"}
        /\ fin.status = "completed"
        /\ stored # "failed"
        /\ (UpdateOk("update_completed") /\ clog = <<>> => stored = "completed")
        /\ Finished =>
              /\ result.status = "completed"
              /\ Idx("audit") # {}
              /\ Idx("execution_complete") # {}

C8_Witness ==
    /\ DeductFailed
    /\ Finished
    /\ stored = "completed"

FinalStatuses == {"completed", "failed", "awaiting_approval"}

\* C9: every execute() call whose graph compiles ends with a returned and
\* a written final status among completed, failed, awaiting_approval.
C9_FinalStatusIsTerminal ==
    Finished /\ built = "ok" =>
        /\ result.status \in FinalStatuses
        /\ (fin.status # "none" => fin.status \in FinalStatuses)

AgentEntries(k) ==
    [i \in 1..k |-> IF env.agents[i].kind = "ok" THEN "ok" ELSE "error"]

\* C10: an agent_call handler that resolved at least one agent and returned
\* leaves error and status as they were and records one entry per resolved
\* agent, ok for an agent that succeeded and error for one that failed; it
\* fails the node when no agent resolves.
C10_AgentFailuresTolerated ==
    [][(pc = "walk" /\ st' # st) =>
          LET n == NodeById(row, st'.current_node_id) IN
          n.type = "agent_call" =>
              IF n.slugs = 0
              THEN st'.status = "failed" /\ st'.error # NoError
              ELSE /\ st'.error = st.error
                   /\ st'.status = st.status
                   /\ st'.results[n.id].agents = AgentEntries(n.slugs)]_vars

C10_Witness ==
    /\ st.current_node_id # ""
    /\ LET n == NodeById(row, st.current_node_id) IN
          /\ n.type = "agent_call"
          /\ n.slugs = MaxAgents
          /\ \A i \in 1..n.slugs : st.results[n.id].agents[i] = "error"
          /\ st.error = NoError
          /\ st.status = "running"

CountOps(q, op) == Cardinality({i \in 1..Len(q) : q[i].op = op})

\* C11: cancel_execution goes on to its update exactly when the status it
\* read is pending, running or paused: the update stores cancelled and one
\* broadcast is sent.  On any other status of an existing record it
\* returns the conflict value, and has written and broadcast nothing.
C11_CancelOnlyWhenCancellable ==
    [][/\ (cpc = "idle" /\ cpc' # "idle") =>
              /\ stored' = stored
              /\ clog' = <<>>
              /\ (stored \in {"pending", "running", "paused"} <=> cpc' = "write")
              /\ (stored \notin {"pending", "running", "paused", "none"} =>
                      cpc' = "done" /\ cres' = "conflict")
       /\ (cpc = "write" /\ cpc' # "write") =>
              /\ stored' = "cancelled"
              /\ cres' = "cancelled"
              /\ CountOps(clog', "update_cancelled") = 1
              /\ CountOps(clog', "execution_error") = 1]_vars

C11_Witness ==
    /\ cpc = "done"
    /\ cres = "conflict"
    /\ stored = "completed"
    /\ clog = <<>>

\* C12: the total_cost execute() computes from the final state, writes to
\* the execution record and returns is the sum of every entry of the final
\* state's step_costs, zero entries included.
C12_TotalCostIsSumOfStepCosts ==
    fin.status # "none" =>
        /\ fin.total_cost = SumSeq(st.step_costs)
        /\ \A i \in Idx("update_completed") : log[i].amt = SumSeq(st.step_costs)
        /\ (Finished => result.total_cost = SumSeq(st.step_costs))

C12_Witness ==
    /\ Finished
    /\ st.step_costs = <<0, 1>>
    /\ result.total_cost = 1
    /\ \E i \in Idx("update_completed") : log[i].amt = 1 /\ log[i].ok

\* The events of node n among the events appended by the step.
NewEvents(n, op) ==
    {i \in (Len(log) + 1)..Len(log') : log'[i].op = op /\ log'[i].node = n}

\* C13: a superstep that runs the handler of a human_gate node makes, for
\* that node, exactly one update of the record to paused and exactly one
\* approval_required broadcast, and the state the handler returns has
\* status awaiting_approval.
C13_GatePausesAndRequestsApproval ==
    [][(pc = "walk" /\ log' # log) =>
          \A n \in active :
              NodeById(row, n).type = "human_gate" =>
                  /\ Cardinality(NewEvents(n, "handler")) = 1
                  /\ Cardinality(NewEvents(n, "set_paused")) = 1
                  /\ Cardinality(NewEvents(n, "approval_required")) = 1
                  /\ stored' \in {"paused", stored}
                  /\ (active = {n} =>
                          /\ st'.status = "awaiting_approval"
                          /\ st'.current_node_id = n)]_vars

C13_Witness ==
    /\ st.status = "awaiting_approval"
    /\ NodeById(row, st.current_node_id).type = "human_gate"
    /\ stored = "paused"
    /\ CountOps(log, "set_paused") = 1
    /\ CountOps(log, "approval_required") = 1

\* C14: for a definition that is not found or inactive, execute() makes no
\* call on the store, the credit service or the broadcaster, creates no
\* execution record and no step outcome, compiles nothing and runs no
\* handler; when it returns, the result is failed with an error.
C14_NotFoundHasNoSideEffect ==
    ~row.found =>
        /\ log = <<>>
        /\ stored = "none"
        /\ stepRows = <<>>
        /\ built = ""
        /\ st = InitialState
        /\ pc \in {"start", "done", "raised"}
        /\ (Finished => result.status = "failed" /\ result.error # NoError)

C14_Witness ==
    /\ ~row.found
    /\ Finished
    /\ result = FailedResult("Pipeline not found or inactive")
    /\ log = <<>>
    /\ stored = "none"

Acyclic(r) ==
    \A n \in NodeIdsOf(r) : n \notin Reach(r.edges, Successors(r, n), Len(r.nodes))

HandlersOf(n) == {i \in Idx("handler") : log[i].node = n}

\* C15: the handlers of one execute() call run as one sequential chain: the
\* first one invoked is the entry_point's, no two run in the same superstep
\* (at most one is in progress at any time), a handler of a later superstep
\* belongs to a successor of a node run in the superstep before, and when
\* the walk of an acyclic graph returns, every node reachable from
\* entry_point was invoked exactly once.
C15_HandlersRunAsOneChain ==
    /\ \A i \in Idx("handler") :
          /\ (log[i].amt = 1 => log[i].node = row.entry)
          /\ (log[i].amt > 1 =>
                  \E j \in Idx("handler") :
                      /\ j < i
                      /\ log[j].amt = log[i].amt - 1
                      /\ log[i].node \in Successors(row, log[j].node))
          /\ \A j \in Idx("handler") : log[j].amt = log[i].amt => j = i
    /\ (built = "ok" /\ Acyclic(row) /\ fin.status # "none") =>
          \A n \in Reach(row.edges, {row.entry}, Len(row.nodes)) :
              Cardinality(HandlersOf(n)) = 1

\* The handler of node id recorded a failure: it set status failed and
\* error when it wrote this entry.
HandlerFailed(results, id) == results[id].kind \in {"validation_invalid", "error"}

\* C16: the step outcomes execute() persists after the walk has returned
\* are one per node of the definition, in the definition's order, each
\* skipped iff results has no entry for the node, failed iff the node's
\* handler failed, and completed otherwise.
C16_OneStepOutcomePerNode ==
    /\ (\E i \in Idx("insert_steps") : log[i].ok) => Len(stepRows) = Len(row.nodes)
    /\ \A idx \in 1..Len(stepRows) :
          LET id == row.nodes[idx].id IN
          /\ stepRows[idx].step_name = id
          /\ stepRows[idx].step_order = idx
          /\ (stepRows[idx].status = "skipped" <=> id \notin DOMAIN st.results)
          /\ (stepRows[idx].status = "failed" <=>
                  id \in DOMAIN st.results /\ HandlerFailed(st.results, id))
          /\ stepRows[idx].status \in {"skipped", "failed", "completed"}

\* The definition {nodes: [a: trigger, b: output], edges: [a -> b],
\* entry_point: a}.
TriggerThenOutput ==
    /\ row.found
    /\ row.graph = "object"
    /\ row.nodes = <<[id |-> "a", type |-> "trigger", slugs |-> 0],
                     [id |-> "b", type |-> "output", slugs |-> 0]>>
    /\ row.edges = {<<"a", "b">>}
    /\ row.entry = "a"

\* C17: run on the definition trigger a -> output b with non-empty input,
\* execute() returns completed with result entries for a and b, no step
\* cost, total_cost 0, and no credit deduction.
C17_TriggerOutputScenario ==
    (TriggerThenOutput /\ ~env.inputEmpty /\ Finished) =>
        /\ result.status = "completed"
        /\ result.error = NoError
        /\ DOMAIN st.results = {"a", "b"}
        /\ st.results["a"].kind = "trigger"
        /\ st.results["b"].kind = "output"
        /\ st.step_costs = <<>>
        /\ result.total_cost = 0
        /\ Idx("deduct") = {}

C17_Witness ==
    /\ TriggerThenOutput
    /\ Finished
    /\ result.status = "completed"
    /\ CountOps(log, "handler") = 2

PostWalkOps == <<"update_completed", "insert_steps", "deduct", "audit", "execution_complete">>

Rank(op) == CHOOSE k \in 1..Len(PostWalkOps) : PostWalkOps[k] = op

IsPostWalk(i) == \E k \in 1..Len(PostWalkOps) : PostWalkOps[k] = log[i].op

\* C18: the coordinator's side effects after the walk happen in the order
\* final record update, step-outcome insert, credit deduction (if any),
\* audit record, execution-complete broadcast (if any), each at most once
\* and none before the walk has returned (after every handler event); an
\* execute() call whose walk returned has made all of them that are due,
\* whether or not an earlier one failed.
C18_SideEffectsInOrder ==
    /\ \A i \in 1..Len(log) : IsPostWalk(i) =>
          /\ fin.status # "none"
          /\ \A j \in 1..Len(log) :
                /\ (IsPostWalk(j) /\ i < j => Rank(log[i].op) < Rank(log[j].op))
                /\ (log[j].op \in {"handler", "set_paused", "approval_required",
                                    "tool_raised"} => j < i)
    /\ (Finished /\ fin.status # "none") =>
          /\ CountOps(log, "update_completed") = 1
          /\ CountOps(log, "insert_steps") = 1
          /\ CountOps(log, "audit") = 1
          /\ CountOps(log, "deduct") =
                 (IF fin.status = "completed" /\ fin.total_cost > 0 THEN 1 ELSE 0)
          /\ CountOps(log, "execution_complete") =
                 (IF fin.status = "completed" THEN 1 ELSE 0)

C18_Witness ==
    /\ Finished
    /\ \E i \in Idx("update_completed") : ~log[i].ok
    /\ \E i \in Idx("insert_steps") : ~log[i].ok
    /\ \E i \in Idx("deduct") : ~log[i].ok
    /\ Idx("audit") # {}
    /\ Idx("execution_complete") # {}

\* C19: the handler of a validation node fails the run (status failed and
\* an error) whenever input_data is empty, whatever the node's id, and the
\* handler of the node verify_recovery also whenever no result of
\* execute_recovery exists; in every other case it records a valid result
\* and returns status and error as it found them.
C19_ValidationFailsOnEmptyInput ==
    [][(pc = "call" /\ pc' = "returned" /\ row.nodes[1].type = "validation") =>
          LET node == row.nodes[1]
              mustFail == \/ env.inputEmpty
                          \/ /\ node.id = "verify_recovery"
                             /\ "execute_recovery" \notin DOMAIN st.results
          IN IF mustFail
             THEN st'.status = "failed" /\ st'.error # NoError
             ELSE /\ st'.results[node.id].kind = "validation_valid"
                  /\ st'.status = st.status
                  /\ st'.error = st.error]_vars

\* C20: a handler call that returns a state with status failed, having
\* been handed a state that was not failed, returned normally with an
\* error set and with a failure entry for its node in results.
C20_FailedHandlerRecordsFailure ==
    [][(pc = "call" /\ pc' # "call" /\ st.status # "failed" /\ st'.status = "failed") =>
          LET node == row.nodes[1] IN
          /\ pc' = "returned"
          /\ st'.error # NoError
          /\ node.id \in DOMAIN st'.results
          /\ st'.results[node.id].kind \in {"error", "validation_invalid"}]_vars

RECURSIVE SumAmounts(_)
SumAmounts(rows) ==
    IF rows = <<>> THEN 0 ELSE rows[1].amount + SumAmounts(Tail(rows))

\* C21: under every interleaving of deduct, charge and refund calls the
\* balance get_balance returns (balance_after of the most recent ledger
\* row) is the sum of the amounts of all ledger rows: no update is lost.
C21_LedgerBalanceIsSumOfAmounts ==
    get_balance(ledger) = SumAmounts(ledger)

\* C22: under every interleaving of the job runs of several workers, the
\* channel dispatch of a content_schedules row runs at most once.
C22_DispatchAtMostOnce ==
    \A i \in DOMAIN dispatched : dispatched[i] =< 1

C22_Witness ==
    \E i \in DOMAIN dispatched : \E w \in DOMAIN workers :
        /\ dispatched[i] = 1
        /\ i \in workers[w].skipped
        /\ workers[w].ticks = 1

\* C23: when no job run is going on, no row is left in status running, a
\* row whose processing failed is in status failed, and no row of a
\* fetched batch was left unhandled.
C23_FailuresAreSoft ==
    (\A w \in DOMAIN workers : workers[w].pc = "idle") =>
        /\ \A i \in DOMAIN schedules : schedules[i] # "running"
        /\ \A w \in DOMAIN workers : workers[w].batch = <<>>

\* C24: under every interleaving of execute() and cancel_execution(), a
\* stored status of completed or failed never changes again.
C24_TerminalStatusIsKept ==
    [][(stored \in {"completed", "failed"}) => (stored' = stored)]_vars

\* C25: when execute() has returned awaiting_approval (every write of its
\* own having succeeded and no cancellation having been requested), the
\* stored status of the record is paused.
C25_AwaitingApprovalIsStoredPaused ==
    (/\ Finished
     /\ result.status = "awaiting_approval"
     /\ cpc = "idle"
     /\ \A i \in 1..Len(log) : log[i].ok) =>
        stored = "paused"

\* C26: an error set by a handler is never reset by a later handler, and
\* an execute() call whose final state carries an error does not return
\* completed and deducts no credits.
C26_ErrorIsSticky ==
    [][/\ (st.error # NoError => st'.error # NoError)
       /\ (st'.error # NoError =>
              /\ result'.status # "completed"
              /\ CountOps(log', "deduct") = 0
              /\ CountOps(log', "execution_complete") = 0)]_vars

C26_Witness ==
    /\ Finished
    /\ st.error # NoError
    /\ st.status = "completed"
    /\ NodeById(row, st.current_node_id).type = "output"
    /\ result.status = "failed"
    /\ CountOps(log, "deduct") = 0

\* C27: an execute() call that created the running record and returned
\* failed has broadcast exactly one execution_error; one that returned
\* completed has broadcast exactly one execution_complete and no
\* execution_error.
C27_FailureIsBroadcastOnce ==
    (Finished /\ UpdateOk("insert_execution")) =>
        /\ (result.status = "failed" => CountOps(log, "execution_error") = 1)
        /\ (result.status = "completed" =>
                /\ CountOps(log, "execution_complete") = 1
                /\ CountOps(log, "execution_error") = 0)

\* The cost the handler of node n appended to step_costs: the costs of
\* the agents it invoked, and nothing for a node that recorded no cost.
OwnCost(n) ==
    IF n.id \in DOMAIN st.results /\ st.results[n.id].kind = "agent_results"
    THEN AgentLoop(1, n.slugs, env, [agents |-> <<>>, cost |-> 0, raised |-> FALSE]).cost
    ELSE 0

\* C28: the credits_used of every persisted step outcome is the cost that
\* the node's own handler appended to step_costs, and 0 for a node whose
\* handler recorded no cost.
C28_StepCostBelongsToItsNode ==
    \A idx \in 1..Len(stepRows) :
        stepRows[idx].credits_used = OwnCost(row.nodes[idx])

\* C29: invoking the bound handler of a node never fails for a missing
\* dependency: no walk ends with the TypeError of a handler called without
\* one of its required keyword arguments.
C29_HandlersAreFullyBound ==
    excMsg # "TypeError"

\* C30: for every definition, cyclic ones included, the walk runs at most
\* recursion_limit supersteps, hence finitely many handler invocations,
\* and the execute() call eventually ends.
C30_ExecuteTerminates ==
    /\ [](stepCount =< RecursionLimit)
    /\ [](CountOps(log, "handler") =< RecursionLimit * MaxNodes)
    /\ <>(pc \in {"done", "raised"})

C30_Witness ==
    /\ Finished
    /\ ~Acyclic(row)
    /\ excMsg = "GraphRecursionError"
    /\ stepCount = RecursionLimit
    /\ result.status = "failed"

====
